---- MODULE Spec2Model ----
(***************************************************************************)
(* The categorize-animation trial of                                       *)
(* packages/plugin-categorize-animation/src/index.ts as a state machine.   *)
(*                                                                         *)
(* One trial is one call of CategorizeAnimationPlugin.trial.  Its state is *)
(* the closure variables of that call; its steps are the three callbacks   *)
(* the call registers with the host: the setInterval callback (Tick), the  *)
(* keyboard callback after_response (Key) and the one-shot setTimeout      *)
(* callback that runs endTrial (Timeout).  The host runs the callbacks one *)
(* at a time, in any order.                                                *)
(***************************************************************************)
EXTENDS Integers, Sequences, FiniteSets, TLC

\* ------------------------------------------------------------------ bounds
MaxLen == 3
MaxReps == 2
\* Ticks are counted up to one more than the longest animation needs.
MaxTicks == MaxLen * MaxReps + 2
\* reps is counted up to one more than the largest repetition target, which
\* leaves every comparison `reps >= trial.sequence_reps` as the code has it.
RepsCap == MaxReps + 1

Min(a, b) == IF a < b THEN a ELSE b

\* ------------------------------------------------------------------ inputs
\* The sentinel of sequence_reps: play the sequence without end.
Unbounded == -1
Keys == {"j", "J", "f"}
RTs == {"rt1", "rt2"}
ANS == "%ANS%"
\* (correct_text, incorrect_text): the defaults, one token each, and a
\* correct_text holding the token twice.
TemplatePairs ==
  { << <<"Correct.">>, <<"Wrong.">> >>,
    << <<"Correct! Answer: ", ANS>>, <<"Wrong. Answer: ", ANS>> >>,
    << <<ANS, " is ", ANS>>, <<"Wrong.">> >> }

VARIABLES
  trial,              \* the trial parameters (never assigned by the plugin)
  host,               \* what the host environment gives the callbacks
  animate_frame,      \* var animate_frame
  reps,               \* var reps
  showAnimation,      \* var showAnimation
  responded,          \* var responded
  timeoutSet,         \* var timeoutSet
  correct,            \* var correct: {} is undefined, else {TRUE} or {FALSE}
  trial_data,         \* var trial_data: {} is the object {}, else {record}
  keyboard_listener,  \* TRUE while the keyboard callback is registered
  animate_interval,   \* TRUE while the setInterval callback is scheduled
  timeouts,           \* one-shot timers armed and not yet fired
  setTimeoutCalls,    \* calls of pluginAPI.setTimeout made so far
  finished,           \* the arguments of the finishTrial calls, in order
  display,            \* what display_element shows
  ticks,              \* setInterval callbacks run so far (up to MaxTicks)
  lastEvent           \* the callback that ran last: its type, the key and
                      \* reaction time it was given, whether it drew a
                      \* stimulus frame and whether it armed the one-shot timer

vars == << trial, host, animate_frame, reps, showAnimation, responded,
           timeoutSet, correct, trial_data, keyboard_listener,
           animate_interval, timeouts, setTimeoutCalls, finished, display,
           ticks, lastEvent >>

L == Len(trial.stimuli)
R == trial.sequence_reps

TrialConfigs ==
  { [ stimuli |-> [i \in 1..len |-> i],
      key_answer |-> ka,
      text_answer |-> "cat",
      correct_text |-> tp[1],
      incorrect_text |-> tp[2],
      sequence_reps |-> sr,
      allow_response_before_complete |-> allow,
      prompt |-> pr,
      render_on_canvas |-> canvas ] :
      len \in 1..MaxLen, ka \in {"j", "J"}, tp \in TemplatePairs,
      sr \in {Unbounded} \cup (1..MaxReps), allow \in BOOLEAN,
      pr \in {"null", "<p>prompt</p>"}, canvas \in BOOLEAN }

\* thisHasJsPsych: whether the object the host binds to `this` when it runs a
\* timer callback has a jsPsych property (a page that declares a global
\* `var jsPsych` gives it one, a page that keeps jsPsych in a const, a
\* module or a function does not).
\* case_sensitive: the host's key comparison policy.
Hosts == [ thisHasJsPsych : BOOLEAN, case_sensitive : BOOLEAN ]

\* ------------------------------------------------------------ host services
toLowerCase(k) == IF k = "J" THEN "j" ELSE k

compareKeys(key1, key2) ==
  IF host.case_sensitive THEN key1 = key2
  ELSE toLowerCase(key1) = toLowerCase(key2)

\* String.prototype.replace with a string pattern: the first occurrence only.
Replace(template, token, by) ==
  IF \E i \in 1..Len(template) : template[i] = token
  THEN LET first == CHOOSE i \in 1..Len(template) :
                      /\ template[i] = token
                      /\ \A j \in 1..(i - 1) : template[j] # token
       IN [template EXCEPT ![first] = by]
  ELSE template

\* -------------------------------------------------------------- the display
Blank == [ stimulus |-> {}, prompt |-> FALSE, feedback |-> {}, canvas |-> FALSE ]

\* trial(): the canvas branch empties display_element and appends the canvas,
\* the hidden prompt_div and feedback_div.
\* The markup branch touches the display on the first tick only, which
\* empties it; the display is taken to be empty before that as well.
InitialDisplay(t) == [ Blank EXCEPT !.canvas = t.render_on_canvas ]

Init ==
  /\ trial \in TrialConfigs
  /\ host \in Hosts
  /\ animate_frame = -1
  /\ reps = 0
  /\ showAnimation = TRUE
  /\ responded = FALSE
  /\ timeoutSet = FALSE
  /\ correct = {}
  /\ trial_data = {}
  /\ keyboard_listener = TRUE
  /\ animate_interval = TRUE
  /\ timeouts = 0
  /\ setTimeoutCalls = 0
  /\ finished = << >>
  /\ display = InitialDisplay(trial)
  /\ ticks = 0
  /\ lastEvent = [ type |-> "init", key |-> "", rt |-> "", drew |-> FALSE,
                   armed |-> FALSE ]

\* ------------------------------------------------- the setInterval callback
\* Variants of AdvanceFrame with a slip in the wrap or in the repetition test.
\* The repetition test made before reps++.
AdvanceFrame_Late ==
  LET next == animate_frame + 1 IN
  IF next = Len(trial.stimuli)
  THEN [ animate_frame |-> 0,
         reps |-> Min(reps + 1, RepsCap),
         showAnimation |->
           IF trial.sequence_reps # -1 /\ reps >= trial.sequence_reps
           THEN FALSE
           ELSE showAnimation ]
  ELSE [ animate_frame |-> next, reps |-> reps, showAnimation |-> showAnimation ]

\* The repetition test one repetition early.
AdvanceFrame_Early ==
  LET next == animate_frame + 1 IN
  IF next = Len(trial.stimuli)
  THEN [ animate_frame |-> 0,
         reps |-> Min(reps + 1, RepsCap),
         showAnimation |->
           IF trial.sequence_reps # -1 /\ reps + 2 >= trial.sequence_reps
           THEN FALSE
           ELSE showAnimation ]
  ELSE [ animate_frame |-> next, reps |-> reps, showAnimation |-> showAnimation ]

\* The repetition test without the test of the -1 sentinel.
AdvanceFrame_NoSentinel ==
  LET next == animate_frame + 1 IN
  IF next = Len(trial.stimuli)
  THEN [ animate_frame |-> 0,
         reps |-> Min(reps + 1, RepsCap),
         showAnimation |->
           IF reps + 1 >= trial.sequence_reps THEN FALSE ELSE showAnimation ]
  ELSE [ animate_frame |-> next, reps |-> reps, showAnimation |-> showAnimation ]

\* The wrap tested with > in place of ==.
AdvanceFrame_NoWrap ==
  LET next == animate_frame + 1 IN
  IF next > Len(trial.stimuli)
  THEN [ animate_frame |-> 0,
         reps |-> Min(reps + 1, RepsCap),
         showAnimation |->
           IF trial.sequence_reps # -1 /\ reps + 1 >= trial.sequence_reps
           THEN FALSE
           ELSE showAnimation ]
  ELSE [ animate_frame |-> next, reps |-> reps, showAnimation |-> showAnimation ]

\* animate_frame++ and the wrap to the start of the sequence.
AdvanceFrame ==
  LET next == animate_frame + 1 IN
  IF next = Len(trial.stimuli)
  THEN [ animate_frame |-> 0,
         reps |-> Min(reps + 1, RepsCap),
         showAnimation |->
           IF trial.sequence_reps # -1 /\ reps + 1 >= trial.sequence_reps
           THEN FALSE
           ELSE showAnimation ]
  ELSE [ animate_frame |-> next, reps |-> reps, showAnimation |-> showAnimation ]

\* trial.stimuli[i], the index counted from 0; 0 stands for the undefined a
\* read outside the array gives.
StimulusAt(i) ==
  IF i + 1 \in DOMAIN trial.stimuli THEN trial.stimuli[i + 1] ELSE 0

\* A variant of DrawStimulus without the test of showAnimation.
DrawStimulus_Always(adv) ==
  LET start == IF trial.render_on_canvas THEN display ELSE Blank IN
  [ start EXCEPT !.stimulus = {StimulusAt(adv.animate_frame)} ]

\* A variant of DrawStimulus that stops drawing once a response is recorded.
DrawStimulus_HaltOnResponse(adv) ==
  LET start == IF trial.render_on_canvas THEN display ELSE Blank IN
  IF adv.showAnimation /\ ~responded
  THEN [ start EXCEPT !.stimulus = {StimulusAt(adv.animate_frame)} ]
  ELSE start

\* The markup mode empties display_element on every tick; while showAnimation
\* holds the current frame is drawn.
DrawStimulus(adv) ==
  LET start == IF trial.render_on_canvas THEN display ELSE Blank IN
  IF adv.showAnimation
  THEN [ start EXCEPT !.stimulus = {StimulusAt(adv.animate_frame)} ]
  ELSE start

ShowPrompt(d) ==
  IF trial.prompt # "null" THEN [ d EXCEPT !.prompt = TRUE ] ELSE d

\* canvas.remove()
RemoveCanvas(d) == [ d EXCEPT !.canvas = FALSE, !.stimulus = {} ]

\* A variant of FeedbackText with the two templates exchanged.
FeedbackText_Swapped ==
  IF TRUE \in correct
  THEN Replace(trial.incorrect_text, ANS, trial.text_answer)
  ELSE Replace(trial.correct_text, ANS, trial.text_answer)

FeedbackText ==
  IF TRUE \in correct
  THEN Replace(trial.correct_text, ANS, trial.text_answer)
  ELSE Replace(trial.incorrect_text, ANS, trial.text_answer)

\* prompt_div.remove() in the canvas mode (in the markup mode the tick has
\* emptied display_element already), then the feedback text.
ShowFeedback(d) == [ d EXCEPT !.prompt = FALSE, !.feedback = {FeedbackText} ]

\* A variant of UpdateDisplay whose second branch shows the prompt without
\* waiting for the animation to end.
UpdateDisplay_PromptEarly(adv) ==
  LET d == DrawStimulus(adv) IN
  IF ~responded /\ trial.allow_response_before_complete
  THEN LET p == ShowPrompt(d) IN
       IF trial.render_on_canvas /\ ~adv.showAnimation THEN RemoveCanvas(p) ELSE p
  ELSE IF ~responded
  THEN LET p == ShowPrompt(d) IN
       IF ~adv.showAnimation /\ trial.render_on_canvas THEN RemoveCanvas(p) ELSE p
  ELSE ShowFeedback(d)

\* The three branches on responded and allow_response_before_complete.
UpdateDisplay(adv) ==
  LET d == DrawStimulus(adv) IN
  IF ~responded /\ trial.allow_response_before_complete
  THEN LET p == ShowPrompt(d) IN
       IF trial.render_on_canvas /\ ~adv.showAnimation THEN RemoveCanvas(p) ELSE p
  ELSE IF ~responded
  THEN IF ~adv.showAnimation
       THEN LET p == ShowPrompt(d) IN
            IF trial.render_on_canvas THEN RemoveCanvas(p) ELSE p
       ELSE d
  ELSE ShowFeedback(d)

\* Variants of ArmTimer: without the test of timeoutSet, and without the
\* assignment to it.
ArmTimer_NoGuard == [ timeoutSet |-> TRUE, call |-> TRUE ]

ArmTimer_FlagNotSet ==
  IF ~timeoutSet
  THEN [ timeoutSet |-> timeoutSet, call |-> TRUE ]
  ELSE [ timeoutSet |-> timeoutSet, call |-> FALSE ]

\* if (!timeoutSet) { timeoutSet = true; <call setTimeout> }
ArmTimer ==
  IF ~timeoutSet
  THEN [ timeoutSet |-> TRUE, call |-> TRUE ]
  ELSE [ timeoutSet |-> timeoutSet, call |-> FALSE ]

\* A variant of ArmInFeedbackBranch that arms the timer in every branch.
ArmInFeedbackBranch_Always == ArmTimer

\* The timer is armed in the last branch only, the one taken when responded
\* holds.
ArmInFeedbackBranch ==
  IF responded THEN ArmTimer
  ELSE [ timeoutSet |-> timeoutSet, call |-> FALSE ]

\* The callback is a `function () {...}`, so `this.jsPsych.pluginAPI.setTimeout`
\* reads jsPsych from the object the host binds to `this`: where that object
\* has no jsPsych the expression throws, after timeoutSet has been assigned
\* and before any timer is armed.
Tick ==
  /\ animate_interval
  /\ LET adv == AdvanceFrame
         arm == ArmInFeedbackBranch
         armed == arm.call /\ host.thisHasJsPsych
     IN /\ animate_frame' = adv.animate_frame
        /\ reps' = adv.reps
        /\ showAnimation' = adv.showAnimation
        /\ display' = UpdateDisplay(adv)
        /\ timeoutSet' = arm.timeoutSet
        /\ timeouts' = IF armed THEN timeouts + 1 ELSE timeouts
        /\ setTimeoutCalls' = IF armed THEN setTimeoutCalls + 1 ELSE setTimeoutCalls
        /\ lastEvent' = [ type |-> "tick", key |-> "", rt |-> "",
                          drew |-> adv.showAnimation,
                          armed |-> armed ]
  /\ ticks' = Min(ticks + 1, MaxTicks)
  /\ UNCHANGED << trial, host, responded, correct, trial_data,
                  keyboard_listener, animate_interval, finished >>

\* ------------------------------------------------------ the keyboard callback
\* Variants of IgnoreResponse: the early return left out, and the test of
\* showAnimation negated.
IgnoreResponse_Never == FALSE

IgnoreResponse_Inverted == ~trial.allow_response_before_complete /\ ~showAnimation

\* if (!trial.allow_response_before_complete && showAnimation) return false;
IgnoreResponse == ~trial.allow_response_before_complete /\ showAnimation

\* A variant of CancelKeyboardResponse that leaves the listener registered.
CancelKeyboardResponse_Noop == keyboard_listener

\* The registration after cancelKeyboardResponse(keyboard_listener).
CancelKeyboardResponse == FALSE

\* A variant of ScoreResponse that compares with = in place of the host's
\* compareKeys.
ScoreResponse_Strict(k) == trial.key_answer = k

\* correct = false; if (compareKeys(trial.key_answer, info.key)) correct = true;
ScoreResponse(k) == compareKeys(trial.key_answer, k)

\* trial_data = { stimulus, rt, correct, response }
ResultRecord(k, rt, c) ==
  [ stimulus |-> trial.stimuli, rt |-> rt, correct |-> c, response |-> k ]

\* The host calls after_response only while the listener is registered.
Key(k, rt) ==
  /\ keyboard_listener
  /\ lastEvent' = [ type |-> "key", key |-> k, rt |-> rt, drew |-> FALSE,
                    armed |-> FALSE ]
  /\ IF IgnoreResponse
     THEN UNCHANGED << correct, responded, trial_data, keyboard_listener >>
     ELSE /\ correct' = {ScoreResponse(k)}
          /\ responded' = TRUE
          /\ trial_data' = {ResultRecord(k, rt, ScoreResponse(k))}
          /\ keyboard_listener' = CancelKeyboardResponse
  /\ UNCHANGED << trial, host, animate_frame, reps, showAnimation, timeoutSet,
                  animate_interval, timeouts, setTimeoutCalls, finished,
                  display, ticks >>

\* ------------------------------------------------------- the one-shot timer
\* A variant of endTrial without clearInterval.
endTrial_KeepsInterval ==
  /\ animate_interval' = animate_interval
  /\ display' = Blank
  /\ finished' = Append(finished, trial_data)

\* clearInterval(animate_interval); display_element.innerHTML = "";
\* this.jsPsych.finishTrial(trial_data)
endTrial ==
  /\ animate_interval' = FALSE
  /\ display' = Blank
  /\ finished' = Append(finished, trial_data)

Timeout ==
  /\ timeouts > 0
  /\ timeouts' = timeouts - 1
  /\ endTrial
  /\ lastEvent' = [ type |-> "timeout", key |-> "", rt |-> "", drew |-> FALSE,
                    armed |-> FALSE ]
  /\ UNCHANGED << trial, host, animate_frame, reps, showAnimation, responded,
                  timeoutSet, correct, trial_data, keyboard_listener,
                  setTimeoutCalls, ticks >>

Next ==
  \/ Tick
  \/ \E k \in Keys, rt \in RTs : Key(k, rt)
  \/ Timeout

Spec == Init /\ [][Next]_vars

\* The host keeps running a scheduled interval callback and fires an armed
\* one-shot timer.
FairSpec == Spec /\ WF_vars(Tick) /\ WF_vars(Timeout)

\* ======================================================================
\* The vsl-grid-scene trial of packages/plugin-vsl-grid-scene/src/index.ts.
\* It uses trial, display, timeouts, setTimeoutCalls, finished and lastEvent;
\* it registers no key listener and no interval, and the other variables
\* keep their initial values.
MaxRows == 2
MaxCols == 2
\* A cell of the grid: 0 is an empty cell, anything else an image.
Cells == {0, 1, 2}
ImageSizes == { <<100, 100>>, <<50, 80>> }

Grids ==
  UNION { [ 1..nrows -> [ 1..ncols -> Cells ] ] :
            nrows \in 1..MaxRows, ncols \in 1..MaxCols }

SceneConfigs ==
  [ stimuli : Grids, image_size : ImageSizes, trial_duration : {2000} ]

\* The table generate_stimulus builds: one row per row of the pattern, one
\* cell per column of its first row, each cell padded by a tenth of the image
\* size and holding an img unless the pattern has 0 there.
generate_stimulus(pattern, image_size) ==
  LET nrows == Len(pattern)
      ncols == Len(pattern[1])
  IN [ id |-> "jspsych-vsl-grid-scene-dummy",
       rows |->
         [ row \in 1..nrows |->
             [ height |-> image_size[2],
               cells |->
                 [ col \in 1..ncols |->
                     [ padding |-> << image_size[2] \div 10, image_size[1] \div 10 >>,
                       width |-> image_size[1],
                       height |-> image_size[2],
                       img |-> IF pattern[row][col] # 0
                               THEN {pattern[row][col]}
                               ELSE {} ] ] ] ] ]

\* The plugin is constructed and trial() has not been called.
SceneInit ==
  /\ trial \in SceneConfigs
  /\ host \in Hosts
  /\ animate_frame = -1
  /\ reps = 0
  /\ showAnimation = FALSE
  /\ responded = FALSE
  /\ timeoutSet = FALSE
  /\ correct = {}
  /\ trial_data = {}
  /\ keyboard_listener = FALSE
  /\ animate_interval = FALSE
  /\ timeouts = 0
  /\ setTimeoutCalls = 0
  /\ finished = << >>
  /\ display = Blank
  /\ ticks = 0
  /\ lastEvent = [ type |-> "init", seen |-> Blank ]

\* trial(): mount the table and arm the one-shot timer.
SceneTrial ==
  /\ lastEvent.type = "init"
  /\ display' = generate_stimulus(trial.stimuli, trial.image_size)
  /\ timeouts' = timeouts + 1
  /\ setTimeoutCalls' = setTimeoutCalls + 1
  /\ lastEvent' = [ type |-> "trial", seen |-> Blank ]
  /\ UNCHANGED << trial, host, animate_frame, reps, showAnimation, responded,
                  timeoutSet, correct, trial_data, keyboard_listener,
                  animate_interval, finished, ticks >>

\* A variant of SceneEndTrial that calls finishTrial before the display is
\* emptied.
SceneEndTrial_FinishFirst ==
  [ display |-> Blank, seen |-> display, data |-> [ stimulus |-> trial.stimuli ] ]

\* endTrial: display_element.innerHTML = ""; then finishTrial({stimulus}).
\* seen is the display at the moment finishTrial is called.
SceneEndTrial ==
  LET cleared == Blank
  IN [ display |-> cleared, seen |-> cleared,
       data |-> [ stimulus |-> trial.stimuli ] ]

SceneTimeout ==
  /\ timeouts > 0
  /\ timeouts' = timeouts - 1
  /\ display' = SceneEndTrial.display
  /\ finished' = Append(finished, SceneEndTrial.data)
  /\ lastEvent' = [ type |-> "timeout", seen |-> SceneEndTrial.seen ]
  /\ UNCHANGED << trial, host, animate_frame, reps, showAnimation, responded,
                  timeoutSet, correct, trial_data, keyboard_listener,
                  animate_interval, setTimeoutCalls, ticks >>

SceneNext ==
  \/ SceneTrial
  \/ SceneTimeout

SceneSpec == SceneInit /\ [][SceneNext]_vars

\* ================================================================= claims
KeyStep == lastEvent'.type = "key"
TickStep == lastEvent'.type = "tick"
Allow == trial.allow_response_before_complete
Ended == Len(finished) >= 1

\* C1: finishTrial (completeTrial) is called at most once in any execution,
\* whatever the interleaving of ticks, key events and the feedback timer: at
\* most one ResultRecord is ever delivered.
C1_CompleteTrialAtMostOnce == Len(finished) <= 1

\* The trial has ended: one record was delivered, after several feedback ticks.
C1_Witness ==
  /\ Len(finished) = 1
  /\ lastEvent.type = "timeout"
  /\ ~animate_interval

\* C2: the end-of-trial timer is armed at most once per trial: setTimeout is
\* called at most once, so at most one timer is ever pending, however many
\* ticks run with responded = TRUE before it fires.
C2_TimerArmedAtMostOnce ==
  /\ setTimeoutCalls <= 1
  /\ timeouts <= 1
  /\ (setTimeoutCalls = 1 => timeoutSet)

\* A tick ran with responded = TRUE while the timer was pending and did not
\* arm it again.
C2_Witness ==
  /\ lastEvent.type = "tick"
  /\ responded
  /\ ~lastEvent.armed
  /\ timeouts = 1
  /\ setTimeoutCalls = 1

\* C3: a key event delivered while showAnimation is TRUE and
\* allow_response_before_complete is FALSE changes nothing: responded,
\* correct, trial_data, the frame index, the repetition count, timeoutSet and
\* the timers are unchanged and the listener stays registered.
C3_IgnoredKeyChangesNothing ==
  [][ (KeyStep /\ ~Allow /\ showAnimation)
        => /\ UNCHANGED << responded, correct, trial_data, animate_frame, reps,
                           showAnimation, timeoutSet, timeouts, setTimeoutCalls,
                           finished, display, animate_interval >>
           /\ keyboard_listener' ]_vars

\* A key event was delivered in mid-animation and ignored.
C3_Witness ==
  /\ lastEvent.type = "key"
  /\ ~Allow
  /\ showAnimation
  /\ ticks >= 1
  /\ ~responded
  /\ keyboard_listener
  /\ trial_data = {}

\* C4 as stated: for a finite repetition target, animating is TRUE after
\* fewer than L*R ticks and FALSE once L*R ticks have run.
C4_Original ==
  R # Unbounded =>
    /\ (ticks < L * R => showAnimation)
    /\ (ticks >= L * R => ~showAnimation)

\* C4 amended: for a finite repetition target, animating is TRUE after L*R
\* ticks or fewer (each of them drew a frame) and FALSE once L*R + 1 ticks
\* have run: the tick that wraps the last repetition ends the animation.
C4_AnimationEndsOnTickAfterLast ==
  R # Unbounded =>
    /\ (ticks <= L * R => showAnimation)
    /\ (ticks >= L * R + 1 => ~showAnimation)
    /\ ((lastEvent.type = "tick" /\ ticks <= L * R) => lastEvent.drew)

\* Three frames, two repetitions: the seventh tick ended the animation.
C4_Witness ==
  /\ L = 3
  /\ R = 2
  /\ ticks = 7
  /\ lastEvent.type = "tick"
  /\ ~lastEvent.drew
  /\ ~showAnimation

\* C5 as stated: with allow_response_before_complete = FALSE, the expected
\* key delivered after exactly L*R ticks is accepted with correct = TRUE.
C5_Original ==
  [][ ( /\ KeyStep
        /\ ~Allow
        /\ R # Unbounded
        /\ ticks = L * R
        /\ lastEvent'.key = trial.key_answer )
        => (responded' /\ correct' = {TRUE}) ]_vars

\* C5 amended: with allow_response_before_complete = FALSE, the expected key
\* delivered after L*R ticks (or fewer) is ignored, since animating is still
\* TRUE; delivered after L*R + 1 ticks or more it is accepted, responded
\* becomes TRUE with correct = TRUE; and every tick that runs after a
\* response shows the feedback.
C5_KeyAcceptedAfterFinalTick ==
  [][ /\ ( /\ KeyStep
           /\ ~Allow
           /\ R # Unbounded
           /\ lastEvent'.key = trial.key_answer )
           => IF ticks <= L * R
              THEN ~responded' /\ UNCHANGED << correct, trial_data >>
              ELSE /\ responded'
                   /\ correct' = {TRUE}
                   /\ \E d \in trial_data' :
                        d.correct /\ d.response = trial.key_answer
      /\ (TickStep /\ responded) => display'.feedback = {FeedbackText}
    ]_vars

\* Three frames, two repetitions: the expected key was accepted after the
\* seventh tick.
C5_Witness ==
  /\ ~Allow
  /\ L = 3
  /\ R = 2
  /\ ticks = 7
  /\ lastEvent.type = "key"
  /\ lastEvent.key = trial.key_answer
  /\ responded
  /\ correct = {TRUE}

\* C6: with allow_response_before_complete = FALSE no response is recorded
\* before the animation has played in full: responded implies that animating
\* is FALSE and that at least L*R ticks have run.
C6_NoResponseBeforeAnimationDone ==
  (~Allow /\ responded) =>
    /\ ~showAnimation
    /\ R # Unbounded
    /\ ticks >= L * R

\* A response recorded after a three-frame, two-repetition animation.
C6_Witness ==
  /\ ~Allow
  /\ responded
  /\ L = 3
  /\ R = 2
  /\ trial_data # {}

\* C7 as stated: with allow_response_before_complete = TRUE, after a key is
\* accepted while animating no later tick advances the frame index or draws
\* a stimulus frame.
C7_Original ==
  [][ (TickStep /\ Allow /\ responded /\ showAnimation)
        => (animate_frame' = animate_frame /\ ~lastEvent'.drew) ]_vars

\* C7 amended: with allow_response_before_complete = TRUE, a key accepted
\* while animating does not halt the animation: the key event leaves
\* animating, the frame index and the repetition count as they are, and every
\* later tick advances the frame index and, while animating stays TRUE, draws
\* that frame together with the feedback.
C7_AnimationContinuesAfterResponse ==
  [][ /\ (KeyStep /\ Allow)
           => UNCHANGED << showAnimation, animate_frame, reps, display >>
      /\ (TickStep /\ Allow /\ responded /\ showAnimation)
           => /\ animate_frame' = (animate_frame + 1) % L
              /\ showAnimation' =>
                   /\ lastEvent'.drew
                   /\ display'.stimulus = {StimulusAt(animate_frame')}
              /\ display'.feedback # {}
    ]_vars

\* A tick after the response drew a frame beside the feedback.
C7_Witness ==
  /\ Allow
  /\ responded
  /\ showAnimation
  /\ lastEvent.type = "tick"
  /\ lastEvent.drew
  /\ display.stimulus # {}
  /\ display.feedback # {}

\* C8 (under FairSpec): every trial in which a key event has been accepted
\* eventually ends: the timer is armed and fires, the frame tick is cancelled,
\* the display is cleared and finishTrial is called with the ResultRecord.
\* Where `this` has no jsPsych the feedback tick throws before it arms the
\* timer: the interval callback keeps running, shows the same feedback and
\* changes nothing more, and the trial never ends.
C8_RespondedLeadsToEnded ==
  responded ~> ( /\ Len(finished) = 1
                 /\ finished[1] = trial_data
                 /\ ~animate_interval
                 /\ display = Blank )

\* C9 as stated: the frame index is within [0, L) in every reachable state in
\* which animating is TRUE.
C9_Original == showAnimation => animate_frame \in 0..(L - 1)

\* C9 amended: in every reachable state in which animating is TRUE the frame
\* index is -1 before the first tick and within [0, L) after it, for every
\* sequence length and every repetition target, finite or unbounded.
C9_FrameIndexInRangeAfterFirstTick ==
  showAnimation =>
    IF ticks = 0 THEN animate_frame = -1 ELSE animate_frame \in 0..(L - 1)

\* An unbounded animation of three frames that has wrapped at least twice.
C9_Witness ==
  /\ showAnimation
  /\ R = Unbounded
  /\ L = 3
  /\ reps >= 2
  /\ animate_frame = 2

\* C10: only the first qualifying key event counts: responded never goes
\* back to FALSE, and once it is TRUE no later event changes correct or the
\* key, correct flag and reaction time recorded in trial_data.
C10_FirstResponseIsFinal ==
  [][ responded => (responded' /\ correct' = correct /\ trial_data' = trial_data)
    ]_vars

\* The record delivered at the end is the one the first response wrote.
C10_Witness ==
  /\ responded
  /\ Len(finished) = 1
  /\ trial_data # {}
  /\ finished[1] = trial_data
  /\ ~keyboard_listener

\* C11 as stated: for every accepted key event correct is TRUE exactly when
\* the observed key equals the expected key.
C11_Original ==
  [][ (KeyStep /\ ~responded /\ responded')
        => correct' = {lastEvent'.key = trial.key_answer} ]_vars

\* C11 amended: for every accepted key event, during or after the animation,
\* correct is TRUE exactly when the host's compareKeys(expected, observed)
\* holds (equality under a case-sensitive host, equality up to letter case
\* otherwise), and trial_data stores that flag with the observed key and its
\* reaction time.
C11_CorrectIsCompareKeys ==
  [][ (KeyStep /\ ~responded /\ responded')
        => /\ correct' = {compareKeys(trial.key_answer, lastEvent'.key)}
           /\ trial_data' =
                { [ stimulus |-> trial.stimuli,
                    rt |-> lastEvent'.rt,
                    correct |-> compareKeys(trial.key_answer, lastEvent'.key),
                    response |-> lastEvent'.key ] } ]_vars

\* A key that differs from the expected key in letter case only was accepted
\* during the animation and scored correct.
C11_Witness ==
  /\ lastEvent.type = "key"
  /\ responded
  /\ showAnimation
  /\ lastEvent.key # trial.key_answer
  /\ correct = {TRUE}
  /\ \E d \in trial_data :
       d.correct /\ d.response = lastEvent.key /\ d.rt = lastEvent.rt

\* The template with its first token, if it has one, replaced by the answer
\* text and everything else as it is.
Substituted(template) ==
  [ i \in 1..Len(template) |->
      IF template[i] = ANS /\ \A j \in 1..(i - 1) : template[j] # ANS
      THEN trial.text_answer
      ELSE template[i] ]

\* C12: whenever feedback is displayed its text is the correct-text template
\* if correct is TRUE and the incorrect-text template otherwise, with the
\* %ANS% token replaced by the answer text (the first one, where a template
\* holds several); a template without the token is displayed verbatim.
C12_FeedbackTextFromTemplate ==
  display.feedback # {} =>
    LET template == IF correct = {TRUE} THEN trial.correct_text
                    ELSE trial.incorrect_text
    IN /\ display.feedback = {Substituted(template)}
       /\ (\A i \in 1..Len(template) : template[i] # ANS)
             => display.feedback = {template}

\* Feedback for a wrong key, built from the incorrect-text template with the
\* token replaced.
C12_Witness ==
  /\ correct = {FALSE}
  /\ trial.incorrect_text = <<"Wrong. Answer: ", ANS>>
  /\ display.feedback = {<<"Wrong. Answer: ", "cat">>}

\* C13 (under SceneSpec): the scene trial arms exactly one timer when it is
\* invoked; until it fires the table stays mounted and nothing is delivered;
\* when it fires the display is emptied first and finishTrial is then called,
\* once, with the grid it was given as the stimulus.  No key listener and no
\* interval is ever registered.
C13_SceneEndsOnceFromItsTimer ==
  /\ ~keyboard_listener
  /\ ~animate_interval
  /\ lastEvent.type = "init"
       => (setTimeoutCalls = 0 /\ timeouts = 0 /\ finished = << >>)
  /\ lastEvent.type = "trial"
       => /\ setTimeoutCalls = 1
          /\ timeouts = 1
          /\ finished = << >>
          /\ display = generate_stimulus(trial.stimuli, trial.image_size)
  /\ lastEvent.type = "timeout"
       => /\ setTimeoutCalls = 1
          /\ timeouts = 0
          /\ finished = << [ stimulus |-> trial.stimuli ] >>
          /\ lastEvent.seen = Blank
          /\ display = Blank

\* A two-by-two scene with an empty cell has ended.
C13_Witness ==
  /\ lastEvent.type = "timeout"
  /\ Len(finished) = 1
  /\ Len(finished[1].stimulus) = 2
  /\ Len(finished[1].stimulus[1]) = 2
  /\ finished[1].stimulus[1][1] = 0
  /\ finished[1].stimulus[2][2] # 0
  /\ display = Blank

\* C14 as stated: once animating is FALSE, every later tick leaves the frame
\* index and the repetition count unchanged and draws no frame.
C14_Original ==
  [][ (TickStep /\ ~showAnimation)
        => /\ ~showAnimation'
           /\ animate_frame' = animate_frame
           /\ reps' = reps
           /\ ~lastEvent'.drew ]_vars

\* C14 amended: once animating is FALSE it never becomes TRUE again and no
\* later tick draws a stimulus frame, while the tick stays scheduled until the
\* trial ends; every later tick still advances the frame index (wrapping at
\* the sequence length) and still counts a repetition on each wrap.
C14_NoDrawAfterAnimationButCountersAdvance ==
  /\ [](( ~showAnimation /\ ~Ended) => animate_interval)
  /\ [][ /\ ~showAnimation => ~showAnimation'
         /\ (TickStep /\ ~showAnimation)
              => /\ ~lastEvent'.drew
                 /\ display'.stimulus = {} \/ display'.stimulus = display.stimulus
                 /\ animate_frame' = (animate_frame + 1) % L
                 /\ reps' = IF animate_frame' = 0 THEN Min(reps + 1, RepsCap)
                            ELSE reps
     ]_vars

\* Ticks went on after a three-frame animation ended: the repetition count
\* has passed its target and the frame index has moved on.
C14_Witness ==
  /\ ~showAnimation
  /\ R # Unbounded
  /\ L = 3
  /\ reps > R
  /\ animate_frame = 1
  /\ lastEvent.type = "tick"
  /\ ~lastEvent.drew
  /\ animate_interval

\* C15 as stated: with allow_response_before_complete = TRUE no reachable
\* state has the animation finished and no response recorded.
C15_Original == Allow => ~(~showAnimation /\ ~responded)

\* C15 amended: the state with the animation finished and no response
\* recorded is reachable under either setting of
\* allow_response_before_complete; it is reached only with a finite
\* repetition target, once L*R + 1 ticks have run without an accepted key.
C15_QuiescenceNeedsFiniteTarget ==
  (~showAnimation /\ ~responded) =>
    /\ R # Unbounded
    /\ ticks >= L * R + 1
    /\ keyboard_listener
    /\ trial_data = {}

\* Responses were allowed during the animation, none came, and the animation
\* finished: the prompt is shown and the canvas is gone.
C15_Witness ==
  /\ Allow
  /\ ~showAnimation
  /\ ~responded
  /\ lastEvent.type = "tick"
  /\ trial.render_on_canvas
  /\ ~display.canvas
  /\ keyboard_listener

\* C16: the trial ends only by way of an accepted key, then a tick that shows
\* the feedback and arms the timer, then the timer firing: finishTrial is
\* never called while responded is FALSE, the key callback neither arms the
\* timer nor ends the trial, and every delivered record holds the key, the
\* correct flag and the reaction time (the empty record is never delivered).
C16_EndedOnlyThroughFeedbackTimer ==
  /\ []( /\ (timeouts > 0 \/ setTimeoutCalls > 0 \/ Ended)
              => (responded /\ timeoutSet /\ trial_data # {})
         /\ \A i \in 1..Len(finished) :
              /\ finished[i] = trial_data
              /\ \E d \in finished[i] :
                   d.response \in Keys /\ d.correct \in BOOLEAN /\ d.rt \in RTs )
  /\ [][ /\ KeyStep => UNCHANGED << timeouts, setTimeoutCalls, timeoutSet,
                                    finished, animate_interval, display >>
         /\ setTimeoutCalls' # setTimeoutCalls
              => (TickStep /\ responded /\ display'.feedback # {})
         /\ finished' # finished
              => (lastEvent'.type = "timeout" /\ responded /\ timeouts > 0)
     ]_vars

\* A trial ended and delivered the record of a wrong key.
C16_Witness ==
  /\ Len(finished) = 1
  /\ \E d \in finished[1] : d.response = "f" /\ ~d.correct /\ d.rt = "rt2"
  /\ timeouts = 0
  /\ setTimeoutCalls = 1

\* C17: with sequence_reps = -1 animating is TRUE in every reachable state,
\* however many ticks have run; if allow_response_before_complete is FALSE
\* as well, no key is ever accepted: responded is never TRUE, the timer is
\* never armed and finishTrial is never called.
C17_UnboundedNeverStops ==
  R = Unbounded =>
    /\ showAnimation
    /\ ~Allow => /\ ~responded
                 /\ correct = {}
                 /\ trial_data = {}
                 /\ ~timeoutSet
                 /\ timeouts = 0
                 /\ setTimeoutCalls = 0
                 /\ finished = << >>
                 /\ keyboard_listener
                 /\ animate_interval

\* An unbounded animation that has wrapped past the counting cap, with a key
\* event just ignored.
C17_Witness ==
  /\ R = Unbounded
  /\ ~Allow
  /\ ticks = MaxTicks
  /\ reps = RepsCap
  /\ lastEvent.type = "key"
  /\ showAnimation
  /\ ~responded

\* C18: the interval is cancelled only at the end of the trial: it is scheduled
\* in every state before finishTrial is called, also after animating is FALSE
\* and after a response; it is cancelled in the step that calls finishTrial;
\* and no tick runs after that.
C18_IntervalCancelledOnlyAtEnd ==
  /\ [](animate_interval = ~Ended)
  /\ [](Ended => lastEvent.type = "timeout")
  /\ [][ /\ (animate_interval /\ ~animate_interval')
              => (finished' # finished /\ lastEvent'.type = "timeout")
         /\ ~animate_interval => ~animate_interval'
     ]_vars

\* After the animation and after the response the interval is still scheduled
\* and has just run again.
C18_Witness ==
  /\ ~showAnimation
  /\ responded
  /\ timeoutSet
  /\ ~lastEvent.armed
  /\ lastEvent.type = "tick"
  /\ animate_interval
  /\ ~Ended

PromptConfigured == trial.prompt # "null"

\* C19: with a prompt configured and allow_response_before_complete = FALSE
\* the prompt is not visible in any state where animating is TRUE; it becomes
\* visible on a tick that finds animating FALSE and no response yet, and is
\* visible from then until the feedback tick.  With
\* allow_response_before_complete = TRUE it is visible from the first tick
\* that runs without a response.
C19_PromptHiddenWhileAnimating ==
  /\ []( /\ (PromptConfigured /\ ~Allow /\ showAnimation) => ~display.prompt
         /\ (PromptConfigured /\ ~Allow /\ ~showAnimation /\ ~timeoutSet)
              => display.prompt
         /\ (PromptConfigured /\ Allow /\ ticks >= 1 /\ ~timeoutSet)
              => display.prompt
         /\ ~PromptConfigured => ~display.prompt )
  /\ [][ (~Allow /\ ~display.prompt /\ display'.prompt)
           => (TickStep /\ ~showAnimation' /\ ~responded) ]_vars

\* Three frames, two repetitions: the seventh tick ended the animation and
\* revealed the prompt.
C19_Witness ==
  /\ PromptConfigured
  /\ ~Allow
  /\ L = 3
  /\ R = 2
  /\ ticks = 7
  /\ lastEvent.type = "tick"
  /\ display.prompt
  /\ ~responded

\* C20: in every reachable state the key listener is registered exactly when
\* responded is FALSE, and correct and the fields of trial_data are defined
\* exactly when responded is TRUE; so when finishTrial is called neither the
\* key listener nor the interval is still registered, and no timer is pending.
C20_ListenerIffNotResponded ==
  /\ keyboard_listener = ~responded
  /\ (correct # {}) = responded
  /\ (trial_data # {}) = responded
  /\ \A d \in trial_data : correct = {d.correct}
  /\ Ended => (~keyboard_listener /\ ~animate_interval /\ timeouts = 0)

\* A trial that ended after a correct response: nothing is left registered.
C20_Witness ==
  /\ Ended
  /\ responded
  /\ correct = {TRUE}
  /\ ~keyboard_listener
  /\ ~animate_interval
  /\ timeouts = 0

====
